---- MODULE Spec2Model ----
(***************************************************************************)
(* Emission simulation of source_environ_1.0.2.ts (and its predecessor     *)
(* source_environ_1.0.1.ts): a source account radiates energy into an      *)
(* environment, the emitted amount is split over the environment's levels  *)
(* by a kappa-distributed random weighting, and main() drives the update   *)
(* from a timer loop that logs to CSV files and renders charts.            *)
(*                                                                         *)
(* Numbers.  The program computes in IEEE doubles; the model computes in   *)
(* exact fixed point, truncating toward zero where a quotient is taken:    *)
(*   - balances and emission amounts are integers, in a balance unit       *)
(*     chosen so that STEFAN_BOLTZMAN_CONSTANT / desiredRatio is 1 / 1000   *)
(*     per unit (the emission law scales as balance^(14/3), so changing    *)
(*     the unit only changes that quotient);                               *)
(*   - radius and surface area are in tenths;                              *)
(*   - times are in milliseconds, as Date.now() gives them;                *)
(*   - a level and a normalized weight are in units of 1 / LevelScale,     *)
(*     which every possible sample total divides, so val / total is exact; *)
(*   - the two non-finite doubles the level arithmetic can produce are     *)
(*     kept: Infinity (a sample drawn from Math.random() = 0) and NaN.     *)
(* Rounding of the individual += and -= of doubles is not modelled.        *)
(***************************************************************************)
EXTENDS Integers, Sequences, FiniteSets, TLC

\* ----------------------------------------------------------------- bounds
\* number of environment levels (100 in the source)
NumLevels == 2
\* Date.now() readings of the direct-call specification: 0 .. MaxClock seconds
MaxClock == 1
\* largest |source.balance| the direct-call specification explores
MaxBalance == 6
\* largest initial supply explored
MaxSupply == 5
\* calls of updateSourceAndEnvironment made by the direct-call specification
MaxCalls == 2
\* batches (logData invocations) main may start
MaxBatches == 2
\* main's first MaxLateTimers timers may fire one interval late
MaxLateTimers == 1

\* ------------------------------------------------------ program constants
\* STEFAN_BOLTZMAN_CONSTANT (5.670374419e-8) and the divisor 4.65e20 (desiredRatio
\* in 1.0.1), in the model's balance unit: their quotient is 1 / 1000
STEFAN_BOLTZMAN_CONSTANT == 1
desiredRatio == 1000
\* milliseconds
UPDATE_INTERVAL == 1000
\* const PI = 3.14159 = PI_NUM / PI_DEN
PI_NUM == 314159
PI_DEN == 100000
\* KAPPA = 3.5 = KAPPA_NUM / 2
KAPPA_NUM == 7
\* for (let i = 0; i < 10 && ...; i++)
BatchSize == 10

\* --------------------------------------------------------------- numbers
Abs(a) == IF a < 0 THEN -a ELSE a

\* a / b of two numbers, truncated toward zero (b > 0)
Trunc(a, b) == IF a < 0 THEN -((-a) \div b) ELSE a \div b

RECURSIVE Pow(_, _)
Pow(b, n) == IF n = 0 THEN 1 ELSE b * Pow(b, n - 1)

\* Math.cbrt on a fixed-point argument: the integer cube root, odd in x
Cbrt(x) ==
    LET r == CHOOSE r \in 0..16 : r * r * r <= Abs(x) /\ Abs(x) < (r + 1) * (r + 1) * (r + 1)
    IN  IF x < 0 THEN -r ELSE r

RECURSIVE Gcd(_, _)
Gcd(a, b) == IF b = 0 THEN a ELSE Gcd(b, a % b)

RECURSIVE LcmUpTo(_)
LcmUpTo(n) == IF n <= 1 THEN 1 ELSE LET l == LcmUpTo(n - 1) IN (l * n) \div Gcd(l, n)

\* -------------------------------------------------------- emission model
\* radius = cbrt(volume / ((4 / 3) * PI)), in tenths; 4 * PI * radius^2, in tenths
calculateSurfaceArea(volume) ==
    LET radius == Cbrt(Trunc(volume * 1000 * 3 * (PI_DEN \div 4), PI_NUM))
    IN  Trunc(4 * PI_NUM * radius * radius, PI_DEN * 10)

\* sigma * area * T^4 / 4.65e20; the result is in units of 1 / (10 * desiredRatio)
calculateEmissionRate(surfaceArea, surfaceTemperature) ==
    STEFAN_BOLTZMAN_CONSTANT * surfaceArea * Pow(surfaceTemperature, 4)

\* mutant: the emission of a full UPDATE_INTERVAL whatever time has elapsed
calculateEmissionAmountAtInterval(balance, elapsedMs) ==
    Trunc(calculateEmissionRate(calculateSurfaceArea(balance), balance) * UPDATE_INTERVAL,
          10 * desiredRatio * 1000)

\* calculateEmissionRate(...) * elapsedTime with elapsedTime = elapsedMs / 1000
calculateEmissionAmount(balance, elapsedMs) ==
    Trunc(calculateEmissionRate(calculateSurfaceArea(balance), balance) * elapsedMs,
          10 * desiredRatio * 1000)

\* ------------------------------------------------- doubles that may not be finite
\* a double of the level arithmetic: a number val, Infinity, or NaN
Num(n) == [k |-> "num", val |-> n]
Infinity == [k |-> "inf", val |-> 0]
NaN == [k |-> "nan", val |-> 0]
IsNum(a) == a.k = "num"

\* a + b (every Infinity here is positive)
FAdd(a, b) ==
    IF a.k = "nan" \/ b.k = "nan" THEN NaN
    ELSE IF a.k = "inf" \/ b.k = "inf" THEN Infinity
    ELSE Num(a.val + b.val)

\* a - 1
FMinusOne(a) == IF IsNum(a) THEN Num(a.val - 1) ELSE a

\* a / n for a number n > 0
FDivInt(a, n) == IF IsNum(a) THEN Num(a.val \div n) ELSE a

\* a * e for a number e
FMulInt(a, e) ==
    IF a.k = "nan" THEN NaN
    ELSE IF a.k = "inf" THEN (IF e = 0 THEN NaN ELSE Infinity)
    ELSE Num(a.val * e)

RECURSIVE FSum(_, _)
\* array.reduce((sum, val) => sum + val, 0) over indices 1..n
FSum(f, n) == IF n = 0 THEN Num(0) ELSE FAdd(FSum(f, n - 1), f[n])

\* ---------------------------------------------------------- kappa sampler
\* Math.random() returns a double of [0, 1); three of them stand for the rest:
\* 0 itself, 2^-7, and the largest double below 1
RandomDraws == {"0", "2^-7", "1-ulp"}

\* Math.pow(u, -1 / kappa) with kappa = kappaNum / 2:
\* 0^(-1/kappa) is Infinity, (2^-7)^(-2/kappaNum) is 2^(14/kappaNum), and the
\* largest double below 1 gives a power that rounds to 1
powNegInvKappa(u, kappaNum) ==
    CASE u = "0" -> Infinity
      [] u = "2^-7" -> Num(Pow(2, 14 \div kappaNum))
      [] u = "1-ulp" -> Num(1)

\* one pass of kappaRandom's loop body: (x + y + z) / 3, for draws u, v, w
kappaValue(u, v, w, kappaNum) ==
    LET x == FMinusOne(powNegInvKappa(u, kappaNum))
        y == FMinusOne(powNegInvKappa(v, kappaNum))
        z == FMinusOne(powNegInvKappa(w, kappaNum))
    IN  FDivInt(FAdd(FAdd(x, y), z), 3)

\* the values one pass can push when Math.random() returns values of random
KappaValues(kappaNum, random) ==
    { kappaValue(u, v, w, kappaNum) : u \in random, v \in random, w \in random }

\* the arrays kappaRandom(kappa, numSamples) can return; random is what
\* Math.random() may return during the call
kappaRandom(kappaNum, numSamples, random) == [1..numSamples -> KappaValues(kappaNum, random)]

\* largest finite sample value, and the unit of levels and weights
MaxSample ==
    LET fin == { a.val : a \in { b \in KappaValues(KAPPA_NUM, RandomDraws) : IsNum(b) } }
    IN  CHOOSE m \in fin : \A n \in fin : n <= m
LevelScale == LcmUpTo(NumLevels * MaxSample)

\* val / totalDistribution, in units of 1 / LevelScale
normalize(val, totalDistribution) ==
    IF val.k = "nan" \/ totalDistribution.k = "nan" THEN NaN
    ELSE IF val.k = "inf" THEN (IF totalDistribution.k = "inf" THEN NaN ELSE Infinity)
    ELSE IF totalDistribution.k = "inf" THEN Num(0)
    ELSE IF totalDistribution.val = 0 THEN (IF val.val = 0 THEN NaN ELSE Infinity)
    ELSE Num((val.val * LevelScale) \div totalDistribution.val)

\* ------------------------------------------------------------------ state
VARIABLES
    source,                 \* SourceAccount: balance, emissionRate, lastUpdateTime, initialSupply
    environment,            \* Environment: balance, levels
    levelDistribution,      \* the array of the last kappaRandom call made on its own
    normalizedDistribution, \* that array, normalized
    elapsedTime,            \* history: currentTime - lastUpdateTime of the last update, in ms
    calls,                  \* calls made by the direct caller
    pc,                     \* where main is suspended
    i,                      \* main's for-loop index
    simulationRunning,      \* main's flag, cleared by the 'line' callback
    iterationCount,         \* main's iterationCount
    csvData,                \* main's csvData
    headersWritten,         \* main's headersWritten
    levelHeadersWritten,    \* main's levelHeadersWritten
    simulationFile,         \* what was written to the stream of simulation_data.csv
    levelFile,              \* level snapshots of level_data.csv
    chartRows,              \* the rows the balance chart was built from
    logCalls,               \* history: logData invocations
    advancesAfterLine       \* history: updates made after the 'line' callback fired

samplerVars == <<levelDistribution, normalizedDistribution>>
mainVars == <<pc, i, simulationRunning, iterationCount, csvData, headersWritten,
              levelHeadersWritten, simulationFile, levelFile, chartRows, logCalls,
              advancesAfterLine>>
vars == <<source, environment, levelDistribution, normalizedDistribution, elapsedTime,
          calls, pc, i,
          simulationRunning, iterationCount, csvData, headersWritten,
          levelHeadersWritten, simulationFile, levelFile, chartRows, logCalls,
          advancesAfterLine>>

\* Date.now() readings offered to the direct caller, in milliseconds
Times == { c * 1000 : c \in 0..MaxClock }

\* the draws main's runs take: interior points of (0, 1)
InteriorDraws == {"2^-7"}

\* ---------------------------------------------------------- construction
initializeSourceAccount(initialSupply, now) ==
    [ balance        |-> initialSupply,
      emissionRate   |-> calculateEmissionRate(calculateSurfaceArea(initialSupply), initialSupply),
      lastUpdateTime |-> now,
      initialSupply  |-> initialSupply ]

initializeEnvironment == [ balance |-> 0, levels |-> [n \in 1..NumLevels |-> Num(0)] ]

\* main up to its first await: the accounts are built, the loop is entered
\* (the supply is positive) and the first timer is pending
Init ==
    /\ \E supply \in 1..MaxSupply, now \in Times :
           source = initializeSourceAccount(supply, now)
    /\ environment = initializeEnvironment
    /\ levelDistribution = <<>>
    /\ elapsedTime = 0
    /\ normalizedDistribution = <<>>
    /\ calls = 0
    /\ pc = "timer"
    /\ i = 0
    /\ simulationRunning = TRUE
    /\ iterationCount = 0
    /\ csvData = <<>>
    /\ headersWritten = FALSE
    /\ levelHeadersWritten = FALSE
    /\ simulationFile = <<>>
    /\ levelFile = <<>>
    /\ chartRows = <<>>
    /\ logCalls = 0
    /\ advancesAfterLine = 0

\* ------------------------------------------------------------- the update
\* the emission amount of a call at currentTime
emissionAt(currentTime) ==
    calculateEmissionAmount(source.balance, currentTime - source.lastUpdateTime)

\* source.balance after the call
sourceBalanceAfter(amount) == source.balance - amount

\* mutant: environment.balance = emissionAmount instead of +=
environmentBalanceAssigned(amount) == amount

\* environment.balance after the call
environmentBalanceAfter(amount) == environment.balance + amount

\* values.map(val => val / totalDistribution), values being levelDistribution
normalizedOf(values) ==
    LET totalDistribution == FSum(values, NumLevels)
    IN  [n \in 1..NumLevels |-> normalize(values[n], totalDistribution)]

\* the values normalizedDistribution can take in a call whose Math.random()
\* returns values of random
NormalizedDistributions(random) ==
    { normalizedOf(values) : values \in kappaRandom(KAPPA_NUM, NumLevels, random) }
AnyDistribution == NormalizedDistributions(RandomDraws)
InteriorDistribution == NormalizedDistributions(InteriorDraws)

\* environment.levels[index] += val * emissionAmount, for every index
levelsAfter(normalized, amount) ==
    [n \in 1..NumLevels |-> FAdd(environment.levels[n], FMulInt(normalized[n], amount))]

\* updateSourceAndEnvironment(source, environment, currentTime), with the
\* normalizedDistribution its samples gave
updateSourceAndEnvironment(currentTime, normalized) ==
    \E amount \in {emissionAt(currentTime)} :
        /\ source' = [source EXCEPT !.balance = sourceBalanceAfter(amount),
                                    !.lastUpdateTime = currentTime]
        /\ environment' = [ balance |-> environmentBalanceAfter(amount),
                            levels  |-> levelsAfter(normalized, amount) ]
        /\ elapsedTime' = currentTime - source.lastUpdateTime

\* a caller invokes updateSourceAndEnvironment with any currentTime
Advance ==
    /\ calls < MaxCalls
    /\ \E currentTime \in Times, normalized \in AnyDistribution :
           updateSourceAndEnvironment(currentTime, normalized)
    /\ Abs(source'.balance) <= MaxBalance
    /\ calls' = calls + 1
    /\ UNCHANGED <<samplerVars, mainVars>>

Next == Advance

\* every call of updateSourceAndEnvironment with any currentTime
Spec == Init /\ [][Next]_vars

\* ------------------------------------------------------ the sampler alone
\* kappaRandom(KAPPA, 100) followed by the normalization of lines 72-73
Sample ==
    /\ \E values \in kappaRandom(KAPPA_NUM, NumLevels, RandomDraws) :
           /\ levelDistribution' = values
           /\ normalizedDistribution' = normalizedOf(values)
    /\ UNCHANGED <<source, environment, elapsedTime, calls, mainVars>>

SamplerNext == Sample

SamplerSpec == Init /\ [][SamplerNext]_vars

\* ------------------------------------------------------------------- main
\* what logData hands to csvStream.write, in order
HeaderRow == [kind |-> "header", val |-> <<>>]
NewlineChunk == [kind |-> "newline", val |-> <<>>]
RowChunk(row) == [kind |-> "row", val |-> row]

\* mutant: the second write of the forEach body writes the row again
RECURSIVE csvStreamWritesRowTwice(_, _)
csvStreamWritesRowTwice(rows, withHeader) ==
    IF withHeader THEN <<HeaderRow>> \o csvStreamWritesRowTwice(rows, FALSE)
    ELSE IF rows = <<>> THEN <<>>
    ELSE <<RowChunk(Head(rows)), RowChunk(Head(rows))>>
             \o csvStreamWritesRowTwice(Tail(rows), FALSE)

\* the header when it has not been written yet, then for every row of
\* csvData the row and a '\n'
RECURSIVE csvStreamWrites(_, _)
csvStreamWrites(rows, withHeader) ==
    IF withHeader THEN <<HeaderRow>> \o csvStreamWrites(rows, FALSE)
    ELSE IF rows = <<>> THEN <<>>
    ELSE <<RowChunk(Head(rows)), NewlineChunk>> \o csvStreamWrites(Tail(rows), FALSE)

\* logData() up to its first await: the rows of csvData go to the CSV stream
logDataStart(rows) ==
    /\ simulationFile' = simulationFile \o csvStreamWrites(rows, ~headersWritten)
    /\ headersWritten' = TRUE
    /\ logCalls' = logCalls + 1
    /\ pc' = "writeFinish"

\* mutant: the loop test of 1.0.1, which does not read simulationRunning
whileTestBalanceOnly == source.balance > 0

\* while (simulationRunning && source.balance > 0)
whileTest == simulationRunning /\ source.balance > 0

\* for (...; i < 10 && source.balance > 0; ...), on the index and balance it reads
forTest(index, balance) == index < BatchSize /\ balance > 0

\* the timer of line 210 fires: one pass of the for loop's body, then the
\* loop's test, and logData's first part when the for loop is left
TimerFires ==
    /\ pc = "timer"
    /\ \E late \in BOOLEAN, normalized \in InteriorDistribution :
           /\ late => iterationCount < MaxLateTimers
           /\ updateSourceAndEnvironment(
                  source.lastUpdateTime + (IF late THEN 2 ELSE 1) * UPDATE_INTERVAL,
                  normalized)
    /\ csvData' = Append(csvData, <<source'.lastUpdateTime, source'.balance,
                                    environment'.balance>>)
    /\ iterationCount' = iterationCount + 1
    /\ advancesAfterLine' =
           IF simulationRunning THEN advancesAfterLine ELSE advancesAfterLine + 1
    /\ i' = i + 1
    /\ IF forTest(i', source'.balance)
       THEN /\ pc' = "timer"
            /\ UNCHANGED <<headersWritten, simulationFile, logCalls>>
       ELSE logDataStart(csvData')
    /\ UNCHANGED <<samplerVars, calls, simulationRunning, levelHeadersWritten,
                   levelFile, chartRows>>

\* the CSV write stream finishes: csvData is emptied and the levels are
\* written to the level stream (logData's second part)
WriteStreamFinish ==
    /\ pc = "writeFinish"
    /\ csvData' = <<>>
    /\ levelFile' = Append(levelFile, environment.levels)
    /\ levelHeadersWritten' = TRUE
    /\ pc' = "levelFinish"
    /\ UNCHANGED <<source, environment, samplerVars, elapsedTime, calls, i, simulationRunning,
                   iterationCount, headersWritten, simulationFile, chartRows,
                   logCalls, advancesAfterLine>>

\* the level write stream finishes: logData returns and the while loop's
\* test runs; the loop goes on with a new timer, or main closes readline
\* and builds the balance chart from csvData
LevelStreamFinish ==
    /\ pc = "levelFinish"
    /\ IF whileTest
       THEN /\ logCalls < MaxBatches
            /\ i' = 0
            /\ pc' = "timer"
            /\ UNCHANGED chartRows
       ELSE /\ chartRows' = csvData
            /\ pc' = "renderBalance"
            /\ UNCHANGED i
    /\ UNCHANGED <<source, environment, samplerVars, elapsedTime, calls, simulationRunning,
                   iterationCount, csvData, headersWritten, levelHeadersWritten,
                   simulationFile, levelFile, logCalls, advancesAfterLine>>

\* a renderToBuffer resolves and its PNG is written: balance chart, level
\* chart, level-over-time chart
ChartRendered ==
    /\ pc \in {"renderBalance", "renderLevel", "renderLevelTime"}
    /\ pc' = CASE pc = "renderBalance" -> "renderLevel"
               [] pc = "renderLevel" -> "renderLevelTime"
               [] pc = "renderLevelTime" -> "done"
    /\ UNCHANGED <<source, environment, samplerVars, elapsedTime, calls, i, simulationRunning,
                   iterationCount, csvData, headersWritten, levelHeadersWritten,
                   simulationFile, levelFile, chartRows, logCalls,
                   advancesAfterLine>>

\* readline's 'line' callback, while r1 is open
LineEvent ==
    /\ pc \in {"timer", "writeFinish", "levelFinish"}
    /\ simulationRunning' = FALSE
    /\ UNCHANGED <<source, environment, samplerVars, elapsedTime, calls, pc, i, iterationCount,
                   csvData, headersWritten, levelHeadersWritten, simulationFile,
                   levelFile, chartRows, logCalls, advancesAfterLine>>

\* what the event loop runs for main: timers, stream events, renders
MainStep == TimerFires \/ WriteStreamFinish \/ LevelStreamFinish \/ ChartRendered

MainNext ==
    \/ TimerFires
    \/ WriteStreamFinish
    \/ LevelStreamFinish
    \/ ChartRendered
    \/ LineEvent

\* main; a pending timer, stream event or render is eventually delivered
MainSpec == Init /\ [][MainNext]_vars /\ WF_vars(MainStep)

\* ----------------------------------------------------------------- claims
inLoop == pc \in {"timer", "writeFinish", "levelFinish"}
afterLoop == pc \in {"renderBalance", "renderLevel", "renderLevelTime", "done"}

C2_BalanceNonNegative == source.balance >= 0

\* C3 (as claimed): no update lowers environment.balance, whatever currentTime is.
C3_EnvironmentMonotone == [][environment'.balance >= environment.balance]_vars

\* C4 (as claimed): an update whose currentTime is before source.lastUpdateTime
\* leaves source.balance and environment.balance unchanged.
C4_BackwardClockEmitsNothing ==
    [][source'.lastUpdateTime < source.lastUpdateTime
         => /\ source'.balance = source.balance
            /\ environment'.balance = environment.balance]_vars

\* C5 (as claimed): in every reachable state the sum of environment.levels is
\* environment.balance.
C5_LevelsSumToBalance ==
    FSum(environment.levels, NumLevels) = Num(environment.balance * LevelScale)

\* C6 (as claimed): the run reaches source.balance == 0, so when the driver loop
\* has been left without the return key, source.balance is 0.
C6_LoopLeftAtZero == (afterLoop /\ simulationRunning) => source.balance = 0

\* C7 (as claimed): the normalized weights of every sample array are numbers,
\* none negative, and sum to 1.
C7_NormalizedIsDistribution ==
    normalizedDistribution # <<>> =>
        /\ \A n \in 1..NumLevels :
               IsNum(normalizedDistribution[n]) /\ normalizedDistribution[n].val >= 0
        /\ FSum(normalizedDistribution, NumLevels) = Num(LevelScale)

\* C8: idempotence at zero elapsed time. An update whose currentTime equals
\* source.lastUpdateTime leaves source.balance and environment.balance
\* unchanged; lastUpdateTime stays what it was, so every repetition is such an
\* update again.
C8_ZeroElapsedIdempotent ==
    [][(calls' = calls + 1 /\ source'.lastUpdateTime = source.lastUpdateTime)
         => /\ source'.balance = source.balance
            /\ environment'.balance = environment.balance]_vars

\* the second of two updates was made at lastUpdateTime, from a balance that
\* emits when time passes
C8_Witness ==
    /\ calls >= 2
    /\ elapsedTime = 0
    /\ calculateEmissionAmount(source.balance, UPDATE_INTERVAL) # 0

\* C9: once the 'line' callback has fired, main makes at most 10 further
\* updates and eventually leaves the simulation loop.
C9_LineStopsLoop ==
    /\ [](advancesAfterLine <= BatchSize)
    /\ (~simulationRunning) ~> afterLoop

\* return was pressed before the first timer of a batch: main made 10 more
\* updates and finished
C9_Witness == ~simulationRunning /\ advancesAfterLine = BatchSize /\ pc = "done"

\* C10 (as claimed): the rows the balance chart is built from hold one entry
\* for every iteration of the run.
C10_ChartHasEveryIteration == afterLoop => Len(chartRows) = iterationCount

\* the iteration rows among what was written to the simulation CSV, in order
RECURSIVE DataRows(_)
DataRows(file) ==
    IF file = <<>> THEN <<>>
    ELSE IF Head(file).kind = "row" THEN <<Head(file).val>> \o DataRows(Tail(file))
    ELSE DataRows(Tail(file))

\* the rows of all iterations so far: those written, then those recorded
\* and waiting in csvData for the next logData
RecordedRows ==
    DataRows(simulationFile) \o (IF pc = "timer" THEN csvData ELSE <<>>)

\* C11: data is logged every 10 iterations. When logData is invoked, exactly
\* 10 updates have been made since the previous invocation, or the batch was
\* cut short by source.balance <= 0; the invocation writes exactly the rows
\* recorded since the previous one, and nothing else writes rows; so the rows
\* written and waiting are, in order and once each, the rows of the
\* iterations, and after every logData the CSV holds one row per iteration.
C11_LoggedEveryTenOnce ==
    /\ [][logCalls' # logCalls =>
             /\ Len(csvData') = BatchSize \/ source'.balance <= 0
             /\ Len(csvData') = i'
             /\ DataRows(simulationFile') = DataRows(simulationFile) \o csvData']_vars
    /\ [][logCalls' = logCalls => simulationFile' = simulationFile]_vars
    /\ [][RecordedRows' =
             IF iterationCount' # iterationCount
             THEN Append(RecordedRows, <<source'.lastUpdateTime, source'.balance,
                                         environment'.balance>>)
             ELSE RecordedRows]_vars
    /\ [](/\ Len(RecordedRows) = iterationCount
          /\ \A m, n \in 1..Len(RecordedRows) :
                 m < n => RecordedRows[m][1] < RecordedRows[n][1]
          /\ pc # "timer" => Len(DataRows(simulationFile)) = iterationCount)

\* two full batches of 10 iterations were logged by two logData calls, and
\* the run is over
C11_Witness ==
    /\ pc = "done"
    /\ logCalls >= 2
    /\ iterationCount = logCalls * BatchSize
    /\ Len(DataRows(simulationFile)) = iterationCount
====
